---------------------------- MODULE Spec2Model ----------------------------
(***************************************************************************)
(* ShopperAI (AsthaAi/demo).                                               *)
(*                                                                         *)
(* Part I  - the IAM core: the PayPalAgent secure communication method    *)
(*           (the guarded endpoint) and the policy evaluation it runs     *)
(*           before the sensitive operation.  One call per behaviour;     *)
(*           the attached policy document and the request are drawn from  *)
(*           bounded sets.                                                 *)
(* Part II - the chat page of the shopping UI (page.tsx): the login check *)
(*           in front of the menu, Buy Now and Compare Prices.            *)
(***************************************************************************)
EXTENDS Integers, Sequences, FiniteSets, TLC

VARIABLES
    \* ---- Part I: guarded endpoint ----
    policy,          \* the policy document attached to the guarded agent
    request,         \* the access request built for the call
    phase,           \* position of the call in the endpoint
    decision,        \* the evaluator's Decision for the call
    response,        \* what the caller gets back
    opSteps,         \* steps of the sensitive operation performed so far
    evalCount,       \* how often the call entered Evaluating
    operatorSignal,  \* error signal surfaced to the agent operator
    \* ---- Part II: chat page ----
    cookie,          \* the userInfo session cookie: "valid" or "none"
    step,            \* ActionStep of the chat
    pendingAction,   \* the menu option last accepted
    isLoading,
    bestMatchShown,  \* a best-match product card (with Buy Now) is in the chat
    productLists,    \* sizes of the product lists in the chat
    loginPromptShown,\* a login_prompt message is in the chat
    showPaymentModal,
    selectedProduct,
    isComparing,
    inflight,        \* requests awaiting their response
    lastEffect,      \* the last feature that took effect, and whether the
                     \* user was logged in when it did
    \* ---- Part III: the guarded endpoint under concurrent callers ----
    attached,        \* the policy document attached to the guarded agent
    everAttached,    \* every document that has been attached so far
    calls,           \* per caller: phase, request, policy snapshot, decision
    \* ---- Part IV: payment from the chat page ----
    modalLoading,    \* PaymentModal: a process-order request is under way
    atPayPal,        \* the browser has left the page for the approval URL
    approval,        \* what the user did with the order at PayPal
    storedOrderId,   \* localStorage orderId
    searchParams,    \* status and transaction_id of the page URL
    paymentDetails,  \* order, transaction and status shown by the status modal
    showPaymentStatus,
    statusLoading,   \* PaymentStatusModal: no answer to show yet
    captureRequests, \* the capture-payment requests posted so far
    payInflight,     \* payment requests awaiting their response
    \* ---- Part V: the MCP payment server and its SSE client ----
    clock,             \* Date.now() of the server
    streams,           \* per GET /stream request: where its handler stands
    activeConnections, \* connectionId -> transport (the stream it belongs to)
    eventSource,       \* the client's EventSource: its stream, or none
    connectionStatus,  \* the client's "Connected" display
    lastClientEvent,   \* what the client handled last
    lastPayment,       \* the last POST /mcp/payment and what it produced
    \* ---- Part VI: promotions in the payment modal ----
    product,             \* PaymentModal's product prop
    modalProduct,        \* PaymentModal's selectedProduct state
    emailConfirmed,      \* PaymentModal: a valid email was entered (Promotions shown)
    availablePromotions, \* Promotions: what get-promotions answered
    selectedPromotion,   \* Promotions: the promotion chosen
    everApplied,         \* history: the promotions applied to modalProduct so far
    \* ---- Part VII: login, auth callback and logout ----
    user,            \* AuthContext: the user, or none
    authIsLoading,   \* AuthContext: isLoading
    auth_token,      \* localStorage auth_token
    auth_state,      \* localStorage auth_state
    atProvider,      \* the browser has left for the identity provider
    authInflight,    \* requests of AuthContext awaiting their response
    lastAuthEvent,   \* what AuthContext did last
    lastLogin,       \* the last login: what the route answered, what login did
    lastCallback     \* the last request of the callback route and its outcome

iamVars == <<policy, request, phase, decision, response, opSteps, evalCount,
             operatorSignal>>

pageVars == <<cookie, step, pendingAction, isLoading, bestMatchShown,
              productLists, loginPromptShown, showPaymentModal,
              selectedProduct, isComparing, inflight, lastEffect>>

concVars == <<attached, everAttached, calls>>

payVars == <<modalLoading, atPayPal, approval, storedOrderId, searchParams,
             paymentDetails, showPaymentStatus, statusLoading,
             captureRequests, payInflight>>

sseVars == <<clock, streams, activeConnections, eventSource,
             connectionStatus, lastClientEvent, lastPayment>>

promoVars == <<product, modalProduct, emailConfirmed, availablePromotions,
               selectedPromotion, everApplied>>

authVars == <<user, authIsLoading, auth_token, auth_state, atProvider,
              authInflight, lastAuthEvent, lastLogin, lastCallback>>

vars == <<iamVars, pageVars, concVars, payVars, sseVars, promoVars, authVars>>

\* what the actions of one part leave alone
otherThanIam   == <<pageVars, concVars, payVars, sseVars, promoVars, authVars>>
otherThanPage  == <<iamVars, concVars, payVars, sseVars, promoVars, authVars>>
otherThanConc  == <<iamVars, pageVars, payVars, sseVars, promoVars, authVars>>
otherThanPay   == <<iamVars, concVars, sseVars, promoVars, authVars>>
otherThanSse   == <<iamVars, pageVars, concVars, payVars, promoVars, authVars>>
otherThanPromo == <<iamVars, pageVars, concVars, payVars, sseVars, authVars>>
\* the auth routes write the userInfo cookie, which is a variable of the page
otherThanAuth  == <<iamVars, concVars, payVars, sseVars, promoVars>>
pageButCookie  == <<step, pendingAction, isLoading, bestMatchShown,
                    productLists, loginPromptShown, showPaymentModal,
                    selectedProduct, isComparing, inflight, lastEffect>>

-----------------------------------------------------------------------------
(* Strings that are compared character by character are sequences of       *)
(* one-character strings, so that case, whitespace and prefixes exist.     *)

AsthaAi     == <<"a", "i">>          \* "astha.ai"
Marketplace == <<"m">>               \* "marketplace.com"

TrustDomains ==
    { AsthaAi,
      <<"A", "i">>,                  \* differs in letter case
      <<"a", "i", " ">>,             \* trailing whitespace
      <<" ", "a", "i">>,             \* leading whitespace
      <<"a">>,                       \* a prefix / substring only
      <<>>,                          \* the empty string
      Marketplace }

Lower(s) == [k \in DOMAIN s |-> IF s[k] = "A" THEN "a" ELSE s[k]]

\* optional values: an attribute the context does not carry has has = FALSE
NoDomain    == [has |-> FALSE, v |-> <<>>]
SomeDomain(d) == [has |-> TRUE, v |-> d]
NoString    == [has |-> FALSE, v |-> ""]
SomeString(s) == [has |-> TRUE, v |-> s]
NoBool      == [has |-> FALSE, v |-> FALSE]
SomeBool(b) == [has |-> TRUE, v |-> b]
\* a context value that may be a number or a non-numeric string
NoValue     == [has |-> FALSE, numeric |-> FALSE, n |-> 0]
Number(n)   == [has |-> TRUE, numeric |-> TRUE, n |-> n]
NotANumber  == [has |-> TRUE, numeric |-> FALSE, n |-> 0]


-----------------------------------------------------------------------------
(* Identity, Access Request, Policy Document                               *)

\* No identity has been issued: the agent's aztp_id is the empty string.
NoIdentity == [aztp_id |-> "", trustDomain |-> <<>>]

Identities ==
    {NoIdentity} \cup
    {[aztp_id |-> "aztp://agent", trustDomain |-> d] : d \in TrustDomains}

RefundLimit == 500

RequestedActions == {"process_refund", "delete_everything"}

Contexts ==
    [ trust_domain  : {NoDomain, SomeDomain(AsthaAi), SomeDomain(Marketplace)},
      department    : {NoString, SomeString("CustomerSupport"), SomeString("Marketing")},
      refund_amount : {NoValue, NotANumber, Number(RefundLimit - 400),
                       Number(RefundLimit), Number(RefundLimit + 100)},
      pii_access    : {NoBool, SomeBool(FALSE), SomeBool(TRUE)} ]

Requests ==
    [ callerIdentity  : Identities,
      requestedAction : RequestedActions,
      context         : Contexts ]

\* The conditions of the documented policies, one record per
\* operator / attribute / required value.
TrustDomainCondition ==
    [op |-> "StringEquals", attr |-> "trust_domain", val |-> AsthaAi]
DepartmentCondition ==
    [op |-> "StringEquals", attr |-> "department", val |-> "CustomerSupport"]
RefundAmountCondition ==
    [op |-> "NumberLessThan", attr |-> "refund_amount", val |-> RefundLimit]
PiiAccessCondition ==
    [op |-> "BoolEquals", attr |-> "pii_access", val |-> FALSE]
IdentityNullCondition ==
    [op |-> "Null", attr |-> "identity", val |-> TRUE]
PiiNotNullCondition ==
    [op |-> "Null", attr |-> "pii_access", val |-> FALSE]
\* an operator the evaluator does not know
UnknownCondition ==
    [op |-> "StringLike", attr |-> "department", val |-> "Customer*"]

KnownOperators == {"StringEquals", "NumberLessThan", "BoolEquals", "Null"}

Missing == "<missing>"


MainConditions ==
    {TrustDomainCondition, DepartmentCondition, RefundAmountCondition,
     PiiAccessCondition}

ConditionBlocks ==
    (SUBSET MainConditions) \cup
    { {IdentityNullCondition},
      {PiiNotNullCondition},
      {TrustDomainCondition, PiiNotNullCondition},
      {UnknownCondition},
      MainConditions \cup {UnknownCondition} }

ListedActions == {"process_refund", "read_faq", "create_ticket"}
Wildcard      == {"*"}

\* A policy document: Version and Sid are informational; Effect and Action
\* are the required fields of the Statement (Effect = Missing and
\* hasAction = FALSE model a document without them); the Condition block
\* is optional.
PolicyDocument(effect, hasAction, action, hasCondition, condition) ==
    [ Version      |-> "2025-05-16",
      Effect       |-> effect,
      hasAction    |-> hasAction,
      Action       |-> action,
      hasCondition |-> hasCondition,
      Condition    |-> condition ]

AllowPolicies ==
    { PolicyDocument("Allow", TRUE, a, TRUE, c) :
          a \in {ListedActions, Wildcard}, c \in ConditionBlocks }
    \cup { PolicyDocument("Allow", TRUE, a, FALSE, {}) :
          a \in {ListedActions, Wildcard} }

DenyPolicies ==
    { PolicyDocument("Deny", TRUE, a, TRUE, c) :
          a \in {ListedActions, Wildcard},
          c \in {{IdentityNullCondition}, {TrustDomainCondition}, MainConditions} }
    \cup { PolicyDocument("Deny", TRUE, a, FALSE, {}) :
          a \in {ListedActions, Wildcard} }

IncompletePolicies ==
    { PolicyDocument(Missing, TRUE, a, TRUE, c) :
          a \in {ListedActions, Wildcard}, c \in {{}, MainConditions} }
    \cup { PolicyDocument(e, FALSE, {}, TRUE, c) :
          e \in {"Allow", "Deny"}, c \in {{}, MainConditions} }

Policies == AllowPolicies \cup DenyPolicies \cup IncompletePolicies


-----------------------------------------------------------------------------
(* Policy Evaluator and Trust Domain Matcher                               *)

\* Mutation: tests the identity for being set at all, which the empty
\* default aztp_id passes
IdentityPresentNotNone(identity) == identity.aztp_id \in {"", "aztp://agent"}

\* Mutation: an identity without a trust domain counts as no identity
IdentityPresentWithDomain(identity) ==
    identity.aztp_id # "" /\ identity.trustDomain # <<>>

\* Whether the aztp_id is present (a valid identity has been issued).
IdentityPresent(identity) == identity.aztp_id # ""

\* Mutation: exact matches only, the wildcard is not honoured
ActionMatchesExactOnly(pol, action) == pol.hasAction /\ action \in pol.Action

\* Mutation: any action of a statement that lists actions is accepted
ActionMatchesAny(pol, action) == pol.hasAction

\* is_action_allowed(policy, action): exact match, or the wildcard.
ActionMatches(pol, action) ==
    pol.hasAction /\ (action \in pol.Action \/ "*" \in pol.Action)

\* Mutation: compares the domains case-insensitively
matchesIgnoringCase(requiredDomain, actualDomain) ==
    actualDomain.has /\ Lower(actualDomain.v) = Lower(requiredDomain)

\* matches(requiredDomain, actualDomain): case-sensitive exact equality.
matches(requiredDomain, actualDomain) ==
    actualDomain.has /\ actualDomain.v = requiredDomain

\* request.context.trust_domain, or the identity's trustDomain when the
\* context omits it.
ActualDomain(req) ==
    IF req.context.trust_domain.has
    THEN req.context.trust_domain
    ELSE SomeDomain(req.callerIdentity.trustDomain)

\* Mutation: a document without a Condition block is read as carrying a
\* condition that cannot be met
ConditionsOrFail(pol) ==
    IF pol.hasCondition THEN pol.Condition ELSE {UnknownCondition}

\* The Condition block is optional: without it there is nothing to meet.
Conditions(pol) == IF pol.hasCondition THEN pol.Condition ELSE {}

IsTrustDomainCondition(c) == c.op = "StringEquals" /\ c.attr = "trust_domain"

AttributeIsNull(req, attr) ==
    IF attr = "identity"
    THEN ~IdentityPresent(req.callerIdentity)
    ELSE ~req.context[attr].has

\* Mutation: the bound itself passes
NumberLessThanOrEqual(bound, value) ==
    value.has /\ value.numeric /\ value.n <= bound

\* number-less-than: the context value read as a number; an absent or
\* non-numeric value fails.
NumberLessThan(bound, value) ==
    value.has /\ value.numeric /\ value.n < bound

\* Mutation: a condition whose operator is not known is skipped
ConditionHoldsIgnoringUnknown(c, req) ==
    CASE c.op = "StringEquals" ->
             IF c.attr = "trust_domain"
             THEN matches(c.val, ActualDomain(req))
             ELSE req.context[c.attr].has /\ req.context[c.attr].v = c.val
      [] c.op = "NumberLessThan" ->
             NumberLessThan(c.val, req.context[c.attr])
      [] c.op = "BoolEquals" ->
             req.context[c.attr].has /\ req.context[c.attr].v = c.val
      [] c.op = "Null" ->
             AttributeIsNull(req, c.attr) = c.val
      [] OTHER -> TRUE

\* One condition against the request; an operator that is not known never
\* holds.
ConditionHolds(c, req) ==
    CASE c.op = "StringEquals" ->
             IF c.attr = "trust_domain"
             THEN matches(c.val, ActualDomain(req))
             ELSE req.context[c.attr].has /\ req.context[c.attr].v = c.val
      [] c.op = "NumberLessThan" ->
             NumberLessThan(c.val, req.context[c.attr])
      [] c.op = "BoolEquals" ->
             req.context[c.attr].has /\ req.context[c.attr].v = c.val
      [] c.op = "Null" ->
             AttributeIsNull(req, c.attr) = c.val
      [] OTHER -> FALSE

\* Mutation: one satisfied condition is enough
AnyHolds(conds, req) ==
    conds = {} \/ \E c \in conds : ConditionHolds(c, req)

\* The conditions are conjunctive.
AllHold(conds, req) == \A c \in conds : ConditionHolds(c, req)

\* Mutation: the effect of the statement is not looked at
StatementAppliesAnyEffect(pol, action) == ActionMatches(pol, action)

\* Step 2: the statement authorizes only with effect Allow and a matching
\* action; Deny with a matching action, or Allow without one, does not.
StatementApplies(pol, action) ==
    pol.Effect = "Allow" /\ ActionMatches(pol, action)

Decision(outcome, reason) == [outcome |-> outcome, reason |-> reason]

Pending == Decision("Pending", "")

evaluate(req, pol) ==
    IF ~IdentityPresent(req.callerIdentity)
    THEN Decision("DeniedUnauthorized",
                  "no identity has been issued to this agent")
    ELSE IF ~StatementApplies(pol, req.requestedAction)
    THEN Decision("DeniedPolicyViolation", "action not permitted")
    ELSE IF ~AllHold({c \in Conditions(pol) : IsTrustDomainCondition(c)}, req)
    THEN Decision("DeniedPolicyViolation", "trust domain mismatch")
    ELSE IF ~AllHold({c \in Conditions(pol) : ~IsTrustDomainCondition(c)}, req)
    THEN Decision("DeniedPolicyViolation", "condition failed")
    ELSE Decision("Allowed", "all checks passed")

\* A document with the required fields and only known condition operators.
WellFormed(pol) ==
    /\ pol.Effect \in {"Allow", "Deny"}
    /\ pol.hasAction
    /\ \A c \in Conditions(pol) : c.op \in KnownOperators

-----------------------------------------------------------------------------
(* Guarded Endpoint: the PayPalAgent secure communication method           *)

MaxOpSteps == 2     \* steps the sensitive operation takes

NoRequest ==
    [ callerIdentity  |-> NoIdentity,
      requestedAction |-> "",
      context         |-> [trust_domain |-> NoDomain, department |-> NoString,
                           refund_amount |-> NoValue, pii_access |-> NoBool] ]

\* Mutation: every denial is reported as unauthorized
CategoryConflated(outcome) ==
    IF outcome = "Allowed" THEN "Connection successful"
    ELSE "Unauthorized access"

\* The caller-visible category of an outcome.
Category(outcome) ==
    CASE outcome = "Allowed"               -> "Connection successful"
      [] outcome = "DeniedUnauthorized"    -> "Unauthorized access"
      [] outcome = "DeniedPolicyViolation" -> "Policy violation"

\* Mutation: only the missing identity stops the operation
MayExecuteUnlessUnauthorized(ph) ==
    ph \in {"Allowed", "DeniedPolicyViolation"}

\* The operation is entered only from a decision of Allowed.
MayExecute(ph) == ph = "Allowed"

\* Mutation: a denied call is evaluated again
AfterDenialRetry == "Received"

\* A denied call ends; the endpoint does not retry.
AfterDenial == "Rejected"

InitIAM ==
    /\ policy \in Policies
    /\ request = NoRequest
    /\ phase = "Idle"
    /\ decision = Pending
    /\ response = ""
    /\ opSteps = 0
    /\ evalCount = 0
    /\ operatorSignal = "None"

\* A caller presents its identity (or none), an action and a payload.
Receive ==
    /\ phase = "Idle"
    /\ \E r \in Requests : request' = r
    /\ phase' = "Received"
    /\ UNCHANGED otherThanIam
    /\ UNCHANGED <<policy, decision, response, opSteps, evalCount,
                   operatorSignal>>

StartEvaluation ==
    /\ phase = "Received"
    /\ phase' = "Evaluating"
    /\ evalCount' = evalCount + 1
    /\ UNCHANGED otherThanIam
    /\ UNCHANGED <<policy, request, decision, response, opSteps,
                   operatorSignal>>

Decide ==
    /\ phase = "Evaluating"
    /\ decision' = evaluate(request, policy)
    /\ phase' = decision'.outcome
    /\ operatorSignal' = IF WellFormed(policy) THEN "None" ELSE "MalformedPolicy"
    /\ UNCHANGED otherThanIam
    /\ UNCHANGED <<policy, request, response, opSteps, evalCount>>

Proceed ==
    /\ MayExecute(phase)
    /\ phase' = "Executing"
    /\ UNCHANGED otherThanIam
    /\ UNCHANGED <<policy, request, decision, response, opSteps, evalCount,
                   operatorSignal>>

ExecuteStep ==
    /\ phase = "Executing"
    /\ opSteps < MaxOpSteps
    /\ opSteps' = opSteps + 1
    /\ UNCHANGED otherThanIam
    /\ UNCHANGED <<policy, request, phase, decision, response, evalCount,
                   operatorSignal>>

Complete ==
    /\ phase = "Executing"
    /\ opSteps = MaxOpSteps
    /\ phase' = "Completed"
    /\ response' = Category(decision.outcome)
    /\ UNCHANGED otherThanIam
    /\ UNCHANGED <<policy, request, decision, opSteps, evalCount,
                   operatorSignal>>

Reject ==
    /\ phase \in {"DeniedUnauthorized", "DeniedPolicyViolation"}
    /\ phase' = AfterDenial
    /\ response' = Category(decision.outcome)
    /\ UNCHANGED otherThanIam
    /\ UNCHANGED <<policy, request, decision, opSteps, evalCount,
                   operatorSignal>>

-----------------------------------------------------------------------------
(* The chat page (page.tsx, Home)                                          *)

MaxInFlight == 2     \* requests awaiting a response at one time
MaxProducts == 2     \* products in one list of a search result

MENU_OPTIONS ==
    {"search", "history", "promotions", "support", "fake_agent",
     "market_agent"}

SUPPORT_OPTIONS == {"refund", "faq", "ticket", "back"}

\* GET /api/auth/user: 401 without the userInfo cookie, the user otherwise.
AuthUserOk == cookie = "valid"

\* JavaScript's ! on what a call of checkUserLogin() hands over: "true" or
\* "false" once awaited, the promise object itself when not awaited; an
\* object is truthy.
Not(v) == v = "false"

Request(op, arg) == [op |-> op, arg |-> arg]

NoEffect == [feature |-> "none", loggedIn |-> TRUE]

Effect(feature) == [feature |-> feature, loggedIn |-> AuthUserOk]

PageLoaded ==
    /\ step = "menu"
    /\ pendingAction = ""
    /\ isLoading = FALSE
    /\ bestMatchShown = FALSE
    /\ productLists = {}
    /\ loginPromptShown = FALSE
    /\ showPaymentModal = FALSE
    /\ selectedProduct = "none"
    /\ isComparing = FALSE
    /\ inflight = {}
    /\ lastEffect = NoEffect

\* handleMenuSelect, up to its await of checkUserLogin()
MenuSelect ==
    /\ step = "menu"
    /\ Cardinality(inflight) < MaxInFlight
    /\ \E optionKey \in MENU_OPTIONS :
           /\ Request("menuLogin", optionKey) \notin inflight
           /\ inflight' = inflight \cup {Request("menuLogin", optionKey)}
    /\ UNCHANGED <<cookie, step, pendingAction, isLoading, bestMatchShown,
                   productLists, loginPromptShown, showPaymentModal,
                   selectedProduct, isComparing, lastEffect>>
    /\ UNCHANGED otherThanPage

\* the step handleMenuSelect sets for an option; the two agent tests leave it
StepOfOption(optionKey, current) ==
    CASE optionKey = "search"     -> "search_product"
      [] optionKey = "history"    -> "history_email"
      [] optionKey = "promotions" -> "promotions_list"
      [] optionKey = "support"    -> "support_menu"
      [] OTHER                    -> current

\* the request handleMenuSelect goes on to send for an option
SentForOption(optionKey) ==
    CASE optionKey = "promotions"   -> {Request("promotions", "")}
      [] optionKey = "fake_agent"   -> {Request("testAgent", "fake")}
      [] optionKey = "market_agent" -> {Request("testAgent", "market")}
      [] OTHER                      -> {}

\* checkUserLogin() answers the await of handleMenuSelect, which goes on;
\* fetched is FALSE when the fetch throws
MenuLoginReturns ==
    \E t \in inflight, fetched \in BOOLEAN :
        /\ t.op = "menuLogin"
        /\ LET isLoggedIn == IF fetched /\ AuthUserOk THEN "true" ELSE "false"
           IN IF Not(isLoggedIn)
              THEN /\ loginPromptShown' = TRUE
                   /\ inflight' = inflight \ {t}
                   /\ UNCHANGED <<step, pendingAction, isLoading, lastEffect>>
              ELSE /\ pendingAction' = t.arg
                   /\ step' = StepOfOption(t.arg, step)
                   /\ isLoading' = IF t.arg \in {"fake_agent", "market_agent"}
                                   THEN TRUE ELSE isLoading
                   /\ inflight' = (inflight \ {t}) \cup SentForOption(t.arg)
                   /\ lastEffect' = Effect("menu")
                   /\ UNCHANGED loginPromptShown
        /\ UNCHANGED <<cookie, bestMatchShown, productLists, showPaymentModal,
                       selectedProduct, isComparing>>
        /\ UNCHANGED otherThanPage

\* a checkUserLogin() nobody awaits: all it does is add the login prompt
LooseLoginReturns ==
    \E t \in inflight, fetched \in BOOLEAN :
        /\ t.op = "looseLogin"
        /\ inflight' = inflight \ {t}
        /\ loginPromptShown' = IF fetched /\ AuthUserOk THEN loginPromptShown
                               ELSE TRUE
        /\ UNCHANGED <<cookie, step, pendingAction, isLoading, bestMatchShown,
                       productLists, showPaymentModal, selectedProduct,
                       isComparing, lastEffect>>
        /\ UNCHANGED otherThanPage

\* handleBuyNow
BuyNow ==
    /\ bestMatchShown
    /\ Cardinality(inflight) < MaxInFlight \/ Request("looseLogin", "") \in inflight
    /\ LET isLoggedIn == "promise"
       IN IF Not(isLoggedIn)
          THEN UNCHANGED <<selectedProduct, showPaymentModal, lastEffect>>
          ELSE /\ selectedProduct' = "best_match"
               /\ showPaymentModal' = TRUE
               /\ lastEffect' = Effect("buy_now")
    /\ inflight' = inflight \cup {Request("looseLogin", "")}
    /\ UNCHANGED <<cookie, step, pendingAction, isLoading, bestMatchShown,
                   productLists, loginPromptShown, isComparing>>
    /\ UNCHANGED otherThanPage

\* handleComparePrices, up to its await of the compare-prices request
ComparePrices ==
    \E products \in productLists :
        /\ Cardinality(inflight \cup {Request("looseLogin", ""),
                                      Request("compare", "")}) <= MaxInFlight
        /\ Request("compare", "") \notin inflight
        /\ LET isLoggedIn == "promise"
           IN IF Not(isLoggedIn) \/ products < 2
              THEN /\ inflight' = inflight \cup {Request("looseLogin", "")}
                   /\ UNCHANGED <<isComparing, lastEffect>>
              ELSE /\ isComparing' = TRUE
                   /\ inflight' = inflight \cup {Request("looseLogin", ""),
                                                 Request("compare", "")}
                   /\ lastEffect' = Effect("compare")
        /\ UNCHANGED <<cookie, step, pendingAction, isLoading, bestMatchShown,
                       productLists, loginPromptShown, showPaymentModal,
                       selectedProduct>>
        /\ UNCHANGED otherThanPage

\* handleComparePrices after its await
CompareReturns ==
    \E t \in inflight :
        /\ t.op = "compare"
        /\ inflight' = inflight \ {t}
        /\ isComparing' = FALSE
        /\ UNCHANGED <<cookie, step, pendingAction, isLoading, bestMatchShown,
                       productLists, loginPromptShown, showPaymentModal,
                       selectedProduct, lastEffect>>
        /\ UNCHANGED otherThanPage

\* the step handleStepInput moves to without sending anything; numeric is
\* whether the text parses to a number in range; the support menu reads
\* the text as an index into SUPPORT_OPTIONS
StepAfterInput(current, numeric, option) ==
    CASE current = "search_product"        -> "search_max_price"
      [] current = "search_max_price"      ->
            IF numeric THEN "search_min_rating" ELSE current
      [] current = "support_menu"          ->
            (CASE option = "refund" -> "support_refund_tid"
               [] option = "faq"    -> "support_faq_question"
               [] option = "ticket" -> "support_ticket_cid"
               [] OTHER             -> "menu")
      [] current = "support_refund_tid"      -> "support_refund_reason"
      [] current = "support_refund_reason"   -> "support_refund_amount"
      [] current = "support_ticket_cid"      -> "support_ticket_type"
      [] current = "support_ticket_type"     -> "support_ticket_priority"
      [] current = "support_ticket_priority" -> "support_ticket_desc"
      [] OTHER                               -> current

\* handleStepInput in a step that only asks the next question
StepInput ==
    /\ \E numeric \in BOOLEAN, option \in SUPPORT_OPTIONS :
           /\ step' = StepAfterInput(step, numeric, option)
           /\ step' # step
    /\ UNCHANGED <<cookie, pendingAction, isLoading, bestMatchShown,
                   productLists, loginPromptShown, showPaymentModal,
                   selectedProduct, isComparing, inflight, lastEffect>>
    /\ UNCHANGED otherThanPage

\* handleStepInput with a valid minimum rating: the search is sent
SubmitSearch ==
    /\ step = "search_min_rating"
    /\ Cardinality(inflight) < MaxInFlight
    /\ Request("search", "") \notin inflight
    /\ step' = "searching"
    /\ isLoading' = TRUE
    /\ inflight' = inflight \cup {Request("search", "")}
    /\ UNCHANGED <<cookie, pendingAction, bestMatchShown, productLists,
                   loginPromptShown, showPaymentModal, selectedProduct,
                   isComparing, lastEffect>>
    /\ UNCHANGED otherThanPage

\* handleStepInput after the await of /api/search
SearchReturns ==
    \E t \in inflight, success \in BOOLEAN, best_match \in BOOLEAN,
       otherProducts \in 0..MaxProducts :
        /\ t.op = "search"
        /\ inflight' = inflight \ {t}
        /\ isLoading' = FALSE
        /\ bestMatchShown' = (bestMatchShown \/ (success /\ best_match))
        /\ productLists' = IF success /\ otherProducts > 0
                           THEN productLists \cup {otherProducts}
                           ELSE productLists
        /\ step' = "menu"
        /\ UNCHANGED <<cookie, pendingAction, loginPromptShown,
                       showPaymentModal, selectedProduct, isComparing,
                       lastEffect>>
        /\ UNCHANGED otherThanPage

\* the step in which handleStepInput sends a request, and the step it shows
\* while waiting
SendingSteps ==
    {[at |-> "history_email",         op |-> "history",
      waiting |-> "history_result"],
     [at |-> "support_refund_amount", op |-> "refund",
      waiting |-> "support_result"],
     [at |-> "support_faq_question",  op |-> "faq",
      waiting |-> "support_result"],
     [at |-> "support_ticket_desc",   op |-> "support-ticket",
      waiting |-> "support_result"]}

\* handleStepInput in a step that sends its request
SubmitStep ==
    \E s \in SendingSteps :
        /\ step = s.at
        /\ Cardinality(inflight) < MaxInFlight
        /\ Request(s.op, "") \notin inflight
        /\ step' = s.waiting
        /\ inflight' = inflight \cup {Request(s.op, "")}
        /\ UNCHANGED <<cookie, pendingAction, isLoading, bestMatchShown,
                       productLists, loginPromptShown, showPaymentModal,
                       selectedProduct, isComparing, lastEffect>>
        /\ UNCHANGED otherThanPage

\* handleStepInput after the await of history, refund, faq or support-ticket,
\* and fetchPromotions after its await: whatever came back, the menu is next
ResultReturns ==
    \E t \in inflight :
        /\ t.op \in {s.op : s \in SendingSteps} \cup {"promotions"}
        /\ inflight' = inflight \ {t}
        /\ step' = "menu"
        /\ UNCHANGED <<cookie, pendingAction, isLoading, bestMatchShown,
                       productLists, loginPromptShown, showPaymentModal,
                       selectedProduct, isComparing, lastEffect>>
        /\ UNCHANGED otherThanPage

\* testAgent after its await (the finally block)
TestAgentReturns ==
    \E t \in inflight :
        /\ t.op = "testAgent"
        /\ inflight' = inflight \ {t}
        /\ isLoading' = FALSE
        /\ step' = "menu"
        /\ UNCHANGED <<cookie, pendingAction, bestMatchShown, productLists,
                       loginPromptShown, showPaymentModal, selectedProduct,
                       isComparing, lastEffect>>
        /\ UNCHANGED otherThanPage

\* the payment modal's onClose
ClosePaymentModal ==
    /\ showPaymentModal
    /\ showPaymentModal' = FALSE
    /\ UNCHANGED <<cookie, step, pendingAction, isLoading, bestMatchShown,
                   productLists, loginPromptShown, selectedProduct,
                   isComparing, inflight, lastEffect>>
    /\ UNCHANGED otherThanPage

\* the userInfo cookie reaches its maxAge
CookieExpires ==
    /\ cookie = "valid"
    /\ cookie' = "none"
    /\ UNCHANGED <<step, pendingAction, isLoading, bestMatchShown,
                   productLists, loginPromptShown, showPaymentModal,
                   selectedProduct, isComparing, inflight, lastEffect>>
    /\ UNCHANGED otherThanPage

\* the auth callback sets the userInfo cookie and redirects to "/": the
\* page is loaded afresh
AuthCallback ==
    /\ cookie = "none"
    /\ cookie' = "valid"
    /\ step' = "menu"
    /\ pendingAction' = ""
    /\ isLoading' = FALSE
    /\ bestMatchShown' = FALSE
    /\ productLists' = {}
    /\ loginPromptShown' = FALSE
    /\ showPaymentModal' = FALSE
    /\ selectedProduct' = "none"
    /\ isComparing' = FALSE
    /\ inflight' = {}
    /\ lastEffect' = NoEffect
    /\ UNCHANGED otherThanPage

-----------------------------------------------------------------------------
(* The guarded endpoint invoked by several callers, with policy reload     *)

MaxCallers == 2      \* callers invoking the endpoint at the same time

Callers == 1..MaxCallers

ConcPolicies ==
    { PolicyDocument("Allow", TRUE, ListedActions, TRUE, {TrustDomainCondition}),
      PolicyDocument("Allow", TRUE, Wildcard, FALSE, {}),
      PolicyDocument("Deny", TRUE, Wildcard, TRUE, {IdentityNullCondition}) }

ConcRequests ==
    { r \in Requests :
          /\ r.callerIdentity.trustDomain \in {<<>>, AsthaAi, Marketplace}
          /\ r.context = NoRequest.context }

NoCall ==
    [phase |-> "Idle", request |-> NoRequest,
     snapshot |-> PolicyDocument(Missing, FALSE, {}, FALSE, {}),
     decision |-> Pending]

\* Mutation: the new document is written into the attached one field by
\* field, the Condition block last, and is visible in between
SwapInPlace(old, new) ==
    [old EXCEPT !.Effect = new.Effect, !.hasAction = new.hasAction,
                !.Action = new.Action]

\* A reload swaps in the fully constructed new document.
Swap(old, new) == new

ConcIdle ==
    /\ attached \in ConcPolicies
    /\ everAttached = {attached}
    /\ calls = [c \in Callers |-> NoCall]

CallReceive(c) ==
    /\ calls[c].phase = "Idle"
    /\ \E r \in ConcRequests :
           calls' = [calls EXCEPT ![c].phase = "Received", ![c].request = r]
    /\ UNCHANGED <<attached, everAttached>>
    /\ UNCHANGED otherThanConc

\* the invocation reads the attached document once: its snapshot
CallSnapshot(c) ==
    /\ calls[c].phase = "Received"
    /\ calls' = [calls EXCEPT ![c].phase = "Evaluating",
                              ![c].snapshot = attached]
    /\ UNCHANGED <<attached, everAttached>>
    /\ UNCHANGED otherThanConc

CallDecide(c) ==
    /\ calls[c].phase = "Evaluating"
    /\ calls' = [calls EXCEPT
                    ![c].phase = "Decided",
                    ![c].decision = evaluate(calls[c].request, calls[c].snapshot)]
    /\ UNCHANGED <<attached, everAttached>>
    /\ UNCHANGED otherThanConc

ReloadPolicy ==
    /\ \E doc \in ConcPolicies \ {attached} :
           /\ attached' = Swap(attached, doc)
           /\ everAttached' = everAttached \cup {doc}
    /\ UNCHANGED calls
    /\ UNCHANGED otherThanConc

-----------------------------------------------------------------------------
(* Payment from the chat page: PaymentModal, the PayPal approval, the      *)
(* return to the page and PaymentStatusModal                               *)

NoParams == [status |-> "", transaction_id |-> ""]

NoDetails == [has |-> FALSE, orderId |-> "", transactionId |-> "", status |-> ""]

PaymentAtRest ==
    /\ modalLoading = FALSE
    /\ atPayPal = FALSE
    /\ approval = "none"
    /\ storedOrderId = ""
    /\ searchParams = NoParams
    /\ paymentDetails = NoDetails
    /\ showPaymentStatus = FALSE
    /\ statusLoading = TRUE
    /\ captureRequests = {}
    /\ payInflight = {}

\* PaymentModal.handleProcessOrder up to its await; the button needs an
\* email and no request under way
ProceedToPayment ==
    /\ ~atPayPal
    /\ showPaymentModal /\ selectedProduct # "none"
    /\ ~modalLoading
    /\ modalLoading' = TRUE
    /\ payInflight' = payInflight \cup {"process-order"}
    /\ UNCHANGED <<atPayPal, approval, storedOrderId, searchParams,
                   paymentDetails, showPaymentStatus, statusLoading,
                   captureRequests>>
    /\ UNCHANGED pageVars
    /\ UNCHANGED otherThanPay

\* PaymentModal.handleProcessOrder after its await, and handleOrderComplete:
\* with success and an approval_url the order id is stored and the browser
\* leaves for PayPal
ProcessOrderReturns ==
    /\ "process-order" \in payInflight
    /\ payInflight' = payInflight \ {"process-order"}
    /\ modalLoading' = FALSE
    /\ \E success \in BOOLEAN, approval_url \in BOOLEAN :
           IF success /\ approval_url
           THEN /\ storedOrderId' = "order"
                /\ atPayPal' = TRUE
                /\ approval' = "pending"
           ELSE UNCHANGED <<storedOrderId, atPayPal, approval>>
    /\ UNCHANGED <<searchParams, paymentDetails, showPaymentStatus,
                   statusLoading, captureRequests>>
    /\ UNCHANGED pageVars
    /\ UNCHANGED otherThanPay

\* the page is loaded: Home starts from its initial state and its effect on
\* searchParams shows the status modal when status and transaction_id are
\* both in the URL
PageLoads(params) ==
    /\ step' = "menu"
    /\ pendingAction' = ""
    /\ isLoading' = FALSE
    /\ bestMatchShown' = FALSE
    /\ productLists' = {}
    /\ loginPromptShown' = FALSE
    /\ showPaymentModal' = FALSE
    /\ selectedProduct' = "none"
    /\ isComparing' = FALSE
    /\ inflight' = {}
    /\ lastEffect' = NoEffect
    /\ modalLoading' = FALSE
    /\ payInflight' = {}
    /\ statusLoading' = TRUE
    /\ searchParams' = params
    /\ IF params.status # "" /\ params.transaction_id # ""
       THEN /\ paymentDetails' = [has |-> TRUE, orderId |-> storedOrderId,
                                  transactionId |-> params.transaction_id,
                                  status |-> params.status]
            /\ showPaymentStatus' = TRUE
       ELSE /\ paymentDetails' = NoDetails
            /\ showPaymentStatus' = FALSE

\* the user approves or cancels at PayPal, which sends the browser back to
\* the page with the status and the transaction in the URL
PayPalReturns ==
    /\ atPayPal
    /\ \E status \in {"success", "cancel"} :
           /\ approval' = IF status = "success" THEN "approved" ELSE "cancelled"
           /\ PageLoads([status |-> status, transaction_id |-> "txn"])
    /\ atPayPal' = FALSE
    /\ UNCHANGED <<cookie, storedOrderId, captureRequests>>
    /\ UNCHANGED otherThanPay

\* the browser reloads the page with the URL as it is
ReloadPage ==
    /\ ~atPayPal
    /\ PageLoads(searchParams)
    /\ UNCHANGED <<cookie, atPayPal, approval, storedOrderId, captureRequests>>
    /\ UNCHANGED otherThanPay

\* PaymentStatusModal's effect once it is shown: handlePaymentCallback up to
\* its await
handlePaymentCallback ==
    /\ showPaymentStatus /\ paymentDetails.has
    /\ statusLoading
    /\ "capture-payment" \notin payInflight
    /\ captureRequests' = captureRequests \cup
           {[order_id |-> paymentDetails.orderId,
             transaction_id |-> paymentDetails.transactionId,
             status |-> paymentDetails.status]}
    /\ payInflight' = payInflight \cup {"capture-payment"}
    /\ UNCHANGED <<modalLoading, atPayPal, approval, storedOrderId,
                   searchParams, paymentDetails, showPaymentStatus,
                   statusLoading>>
    /\ UNCHANGED pageVars
    /\ UNCHANGED otherThanPay

\* handlePaymentCallback after its await: an answer or an error is shown
CaptureReturns ==
    /\ "capture-payment" \in payInflight
    /\ payInflight' = payInflight \ {"capture-payment"}
    /\ statusLoading' = ~paymentDetails.has
    /\ UNCHANGED <<modalLoading, atPayPal, approval, storedOrderId,
                   searchParams, paymentDetails, showPaymentStatus,
                   captureRequests>>
    /\ UNCHANGED pageVars
    /\ UNCHANGED otherThanPay

\* handleClosePaymentStatus
ClosePaymentStatus ==
    /\ showPaymentStatus
    /\ showPaymentStatus' = FALSE
    /\ paymentDetails' = NoDetails
    /\ storedOrderId' = ""
    /\ searchParams' = NoParams
    /\ statusLoading' = TRUE
    /\ UNCHANGED <<modalLoading, atPayPal, approval, captureRequests,
                   payInflight>>
    /\ UNCHANGED pageVars
    /\ UNCHANGED otherThanPay

-----------------------------------------------------------------------------
(* The MCP payment server (index.ts) and its test client (client.html)     *)

MaxStreams == 2
MaxClock == 1

StreamIds == 1..MaxStreams
NoStream == 0
NoTransport == 0

\* a GET /stream request: state is "none" (not made), "requested" (made,
\* handler not started), "connecting" (handler at await server.connect),
\* "open" (handler finished) or "failed" (handler's catch ran)
NoStreamYet ==
    [state |-> "none", id |-> 0, clientClosed |-> FALSE,
     closeEmitted |-> FALSE, listening |-> FALSE]

NoPayment ==
    [handled |-> FALSE, body |-> FALSE, amount |-> "absent",
     currency |-> "absent", events |-> <<>>, recipients |-> {}, code |-> 0,
     status |-> ""]

SseAtRest ==
    /\ clock = 0
    /\ streams = [c \in StreamIds |-> NoStreamYet]
    /\ activeConnections = [i \in 0..MaxClock |-> NoTransport]
    /\ eventSource = NoStream
    /\ connectionStatus = FALSE
    /\ lastClientEvent = "none"
    /\ lastPayment = NoPayment

\* eventSource.close(): the client's end of stream c is closed
Closed(ss, c) ==
    IF c = NoStream THEN ss ELSE [ss EXCEPT ![c].clientClosed = TRUE]

\* ---- client.html ----

\* connectToServer: closes the EventSource it has and makes a new one
connectToServer ==
    /\ \E c \in StreamIds :
           /\ streams[c].state = "none"
           /\ streams' = [Closed(streams, eventSource) EXCEPT ![c].state = "requested"]
           /\ eventSource' = c
    /\ lastClientEvent' = "connect"
    /\ UNCHANGED <<clock, activeConnections, connectionStatus, lastPayment>>
    /\ UNCHANGED otherThanSse

\* eventSource.onopen: the response headers have arrived
onopen ==
    /\ eventSource # NoStream
    /\ streams[eventSource].state \in {"connecting", "open"}
    /\ ~streams[eventSource].clientClosed
    /\ lastClientEvent = "connect"
    /\ connectionStatus' = TRUE
    /\ lastClientEvent' = "open"
    /\ UNCHANGED <<clock, streams, activeConnections, eventSource, lastPayment>>
    /\ UNCHANGED otherThanSse

\* eventSource.onerror: the connection dropped or could not be made; the
\* handler closes the EventSource and forgets it
onerror ==
    /\ eventSource # NoStream
    /\ streams[eventSource].state # "none"
    /\ streams' = Closed(streams, eventSource)
    /\ eventSource' = NoStream
    /\ connectionStatus' = FALSE
    /\ lastClientEvent' = "error"
    /\ UNCHANGED <<clock, activeConnections, lastPayment>>
    /\ UNCHANGED otherThanSse

\* disconnectFromServer
disconnectFromServer ==
    /\ eventSource # NoStream
    /\ streams' = Closed(streams, eventSource)
    /\ eventSource' = NoStream
    /\ connectionStatus' = FALSE
    /\ lastClientEvent' = "disconnect"
    /\ UNCHANGED <<clock, activeConnections, lastPayment>>
    /\ UNCHANGED otherThanSse

\* ---- index.ts ----

Tick ==
    /\ clock < MaxClock
    /\ clock' = clock + 1
    /\ UNCHANGED <<streams, activeConnections, eventSource, connectionStatus,
                   lastClientEvent, lastPayment>>
    /\ UNCHANGED otherThanSse

\* mpcStreamHandler up to its await: the transport is stored under
\* Date.now() before server.connect
mpcStreamHandler(c) ==
    /\ streams[c].state = "requested"
    /\ streams' = [streams EXCEPT ![c].state = "connecting", ![c].id = clock]
    /\ activeConnections' = [activeConnections EXCEPT ![clock] = c]
    /\ UNCHANGED <<clock, eventSource, connectionStatus, lastClientEvent,
                   lastPayment>>
    /\ UNCHANGED otherThanSse

\* mpcStreamHandler after server.connect resolved: only now is the close
\* listener registered
ConnectResolves(c) ==
    /\ streams[c].state = "connecting"
    /\ streams' = [streams EXCEPT ![c].state = "open", ![c].listening = TRUE]
    /\ UNCHANGED <<clock, activeConnections, eventSource, connectionStatus,
                   lastClientEvent, lastPayment>>
    /\ UNCHANGED otherThanSse

\* mpcStreamHandler after server.connect rejected: the catch block logs and
\* answers 500, the registry is left as it is
ConnectRejects(c) ==
    /\ streams[c].state = "connecting"
    /\ streams' = [streams EXCEPT ![c].state = "failed"]
    /\ UNCHANGED <<clock, activeConnections, eventSource, connectionStatus, lastClientEvent,
                   lastPayment>>
    /\ UNCHANGED otherThanSse

\* the request's "close" event: the listener, if it is registered by now,
\* deletes whatever is stored under the stream's connectionId
SocketClosed(c) ==
    /\ streams[c].clientClosed
    /\ ~streams[c].closeEmitted
    /\ streams[c].state \in {"connecting", "open", "failed"}
    /\ streams' = [streams EXCEPT ![c].closeEmitted = TRUE]
    /\ activeConnections' =
           IF streams[c].listening
           THEN [activeConnections EXCEPT ![streams[c].id] = NoTransport]
           ELSE activeConnections
    /\ UNCHANGED <<clock, eventSource, connectionStatus, lastClientEvent,
                   lastPayment>>
    /\ UNCHANGED otherThanSse

\* the transports broadcastMessage sends to, and those whose send succeeds
Registered == {activeConnections[i] : i \in 0..MaxClock} \ {NoTransport}

Reached == {c \in Registered : ~streams[c].closeEmitted /\ streams[c].state = "open"}

Amounts == {"absent", "0", "100"}
Currencies == {"absent", "", "USD"}

\* Mutation: only a field that is not in the body is refused
NotSupplied(v) == v = "absent"

\* JavaScript's !v for the values a JSON body can hold here
Falsy(v) == v \in {"absent", "0", ""}

PaymentOutcome(body, amount, currency, event, code, status) ==
    [handled |-> TRUE, body |-> body, amount |-> amount, currency |-> currency,
     events |-> <<event>>, recipients |-> Reached, code |-> code,
     status |-> status]

\* paymentHandler: one broadcast, then the response.  A request without a
\* JSON body has req.body {} or undefined, as the installed express.json
\* leaves it: the destructuring of undefined throws and the catch block
\* broadcasts the error and answers 500.
paymentHandler ==
    /\ \/ \E amount \in Amounts, currency \in Currencies :
              lastPayment' =
                  IF Falsy(amount) \/ Falsy(currency)
                  THEN PaymentOutcome(TRUE, amount, currency, "PAYMENT_ERROR", 400, "")
                  ELSE PaymentOutcome(TRUE, amount, currency, "PAYMENT_RECEIVED", 200,
                                      "COMPLETED")
       \/ \E code \in {400, 500} :
              lastPayment' =
                  PaymentOutcome(FALSE, "absent", "absent", "PAYMENT_ERROR", code, "")
    /\ UNCHANGED <<clock, streams, activeConnections, eventSource,
                   connectionStatus, lastClientEvent>>
    /\ UNCHANGED otherThanSse

-----------------------------------------------------------------------------
(* Promotions in the payment modal: PaymentModal and Promotions.tsx        *)

\* a price string: an amount in cents, written with or without a leading
\* "$"; NoPrice is the absent original_price, NaNPrice the string "NaN"
NoPrice == [cents |-> 0, dollar |-> FALSE, nan |-> FALSE, has |-> FALSE]
NaNPrice == [cents |-> 0, dollar |-> FALSE, nan |-> TRUE, has |-> TRUE]
PriceString(cents, dollar) ==
    [cents |-> cents, dollar |-> dollar, nan |-> FALSE, has |-> TRUE]

ProductPrices == {PriceString(c, d) : c \in {1050, 2000, 2999}, d \in BOOLEAN}

\* what get-promotions can answer: percentages and minimum purchases in cents
NoPromotion == [id |-> "", discount_percentage |-> 0, minimum_purchase |-> 0]
PromotionCatalogue ==
    { [id |-> "student",  discount_percentage |-> 5,  minimum_purchase |-> 0],
      [id |-> "campaign", discount_percentage |-> 10, minimum_purchase |-> 2000],
      [id |-> "personal", discount_percentage |-> 15, minimum_purchase |-> 2500] }

\* the product as the page hands it to the modal
FreshProduct(price) ==
    [price |-> price, original_price |-> NoPrice, applied_promotion |-> NoPromotion]

NaN == -1

\* parseFloat of a price string, in cents: a leading "$" gives NaN
parseFloat(str) == IF str.nan \/ str.dollar THEN NaN ELSE str.cents

\* Mutation: the price now shown is the base of the discount
basePriceCurrent(productDetails) == parseFloat(productDetails.price)

\* "Always use the original price for calculations"
basePrice(productDetails) ==
    IF productDetails.original_price.has
    THEN parseFloat(productDetails.original_price)
    ELSE parseFloat(productDetails.price)

\* (base - base * pct / 100).toFixed(2): the nearest cent, and either
\* neighbour when the amount lies half way, where the floating-point value
\* decides
toFixed2(base, pct) ==
    IF base = NaN THEN {NaNPrice}
    ELSE LET hundredths == base * (100 - pct)
             down == hundredths \div 100
             rest == hundredths % 100
         IN  IF rest < 50 THEN {PriceString(down, FALSE)}
             ELSE IF rest > 50 THEN {PriceString(down + 1, FALSE)}
             ELSE {PriceString(down, FALSE), PriceString(down + 1, FALSE)}

\* isEligible of the promotion card (NaN >= n is false)
isEligible(productDetails, promotion) ==
    /\ basePrice(productDetails) # NaN
    /\ basePrice(productDetails) >= promotion.minimum_purchase

PromoAtRest ==
    /\ product = FreshProduct(PriceString(2000, FALSE))
    /\ modalProduct = product
    /\ emailConfirmed = FALSE
    /\ availablePromotions = {}
    /\ selectedPromotion = NoPromotion
    /\ everApplied = {}

\* PaymentModal's effect on [show, product]: the modal is opened for a product
ModalOpens ==
    /\ \E price \in ProductPrices : product' = FreshProduct(price)
    /\ modalProduct' = product'
    /\ emailConfirmed' = FALSE
    /\ availablePromotions' = {}
    /\ selectedPromotion' = NoPromotion
    /\ everApplied' = {}
    /\ UNCHANGED otherThanPromo

\* handleEmailBlur with a valid email: Promotions is mounted, with no
\* promotion chosen, and its effect calls fetchPromotions
handleEmailBlur ==
    /\ ~emailConfirmed
    /\ emailConfirmed' = TRUE
    /\ availablePromotions' = {}
    /\ selectedPromotion' = NoPromotion
    /\ UNCHANGED <<product, modalProduct, everApplied>>
    /\ UNCHANGED otherThanPromo

\* the email is edited: emailConfirmed is false again and Promotions is
\* unmounted, its state lost; the modal keeps its selectedProduct
EmailEdited ==
    /\ emailConfirmed
    /\ emailConfirmed' = FALSE
    /\ availablePromotions' = {}
    /\ selectedPromotion' = NoPromotion
    /\ UNCHANGED <<product, modalProduct, everApplied>>
    /\ UNCHANGED otherThanPromo

\* fetchPromotions after its await
fetchPromotions ==
    /\ emailConfirmed
    /\ selectedPromotion = NoPromotion
    /\ \E promotions \in SUBSET PromotionCatalogue :
           availablePromotions' = promotions
    /\ UNCHANGED <<product, modalProduct, emailConfirmed, selectedPromotion,
                   everApplied>>
    /\ UNCHANGED otherThanPromo

\* handlePromotionSelect: the Apply button of an eligible promotion that is
\* not the one chosen
handlePromotionSelect ==
    /\ emailConfirmed
    /\ \E promotion \in availablePromotions :
           /\ selectedPromotion.id # promotion.id
           /\ isEligible(modalProduct, promotion)
           /\ selectedPromotion' = promotion
    /\ UNCHANGED <<product, modalProduct, emailConfirmed, availablePromotions,
                   everApplied>>
    /\ UNCHANGED otherThanPromo

\* Promotions' effect with a promotion chosen, and handlePromotionSelected:
\* the modal's product is replaced by the discounted one
PromotionApplied ==
    /\ emailConfirmed
    /\ selectedPromotion # NoPromotion
    /\ \E price \in toFixed2(basePrice(modalProduct),
                             selectedPromotion.discount_percentage) :
           modalProduct' =
               [price |-> price,
                original_price |-> IF modalProduct.original_price.has
                                   THEN modalProduct.original_price
                                   ELSE modalProduct.price,
                applied_promotion |-> selectedPromotion]
    /\ everApplied' = everApplied \cup {selectedPromotion.id}
    /\ UNCHANGED <<product, emailConfirmed, availablePromotions,
                   selectedPromotion>>
    /\ UNCHANGED otherThanPromo

-----------------------------------------------------------------------------
(* Login, auth callback and logout: AuthContext and the routes under       *)
(* /api/auth                                                               *)

NoLogin ==
    [handled |-> FALSE, route |-> "", alert |-> "", redirected |-> FALSE]

NoCallback ==
    [handled |-> FALSE, token |-> FALSE, agent |-> FALSE, provider |-> FALSE,
     apiKey |-> FALSE, initialized |-> FALSE, validation |-> "",
     error |-> "", setCookie |-> FALSE, redirect |-> "",
     cookieBefore |-> "none", cookieAfter |-> "none"]

AuthAtRest ==
    /\ user = "none"
    /\ authIsLoading = TRUE
    /\ auth_token = ""
    /\ auth_state = ""
    /\ atProvider = FALSE
    /\ authInflight = {}
    /\ lastAuthEvent = "none"
    /\ lastLogin = NoLogin
    /\ lastCallback = NoCallback

\* ---- POST /api/auth/login ----

\* what happens inside the login route
LoginRouteOutcomes == {"no_api_key", "no_response", "no_redirect_url", "ok", "throws"}

\* the JSON body of the route's answer: it never has a success field or a
\* state, and has a redirectUrl only when the provider gave one
LoginRouteBody(outcome) ==
    IF outcome = "ok"
    THEN [success |-> FALSE, redirectUrl |-> TRUE, error |-> FALSE, state |-> FALSE]
    ELSE [success |-> FALSE, redirectUrl |-> FALSE, error |-> TRUE, state |-> FALSE]

\* ---- AuthContext ----

\* login up to its first await
login ==
    /\ ~atProvider
    /\ "login" \notin authInflight
    /\ authIsLoading' = TRUE
    /\ authInflight' = authInflight \cup {"login"}
    /\ lastAuthEvent' = "login"
    /\ UNCHANGED <<user, auth_token, auth_state, atProvider, lastLogin,
                   lastCallback>>
    /\ UNCHANGED pageVars
    /\ UNCHANGED otherThanAuth

\* login after the route answered: with success and redirectUrl the state is
\* stored and the browser leaves, otherwise 'Login failed' is shown
LoginReturns ==
    /\ "login" \in authInflight
    /\ authInflight' = authInflight \ {"login"}
    /\ \E outcome \in LoginRouteOutcomes :
           LET loginResponse == LoginRouteBody(outcome)
           IN  IF loginResponse.success /\ loginResponse.redirectUrl
               THEN /\ auth_state' = IF loginResponse.state THEN "state" ELSE "undefined"
                    /\ atProvider' = TRUE
                    /\ lastLogin' = [handled |-> TRUE, route |-> outcome,
                                     alert |-> "", redirected |-> TRUE]
                    /\ UNCHANGED authIsLoading
               ELSE /\ lastLogin' = [handled |-> TRUE, route |-> outcome,
                                     alert |-> "Login failed", redirected |-> FALSE]
                    /\ authIsLoading' = FALSE
                    /\ UNCHANGED <<auth_state, atProvider>>
    /\ UNCHANGED <<user, auth_token, lastAuthEvent, lastCallback>>
    /\ UNCHANGED pageVars
    /\ UNCHANGED otherThanAuth

\* login when the request itself fails: 'Login error' is shown
LoginFails ==
    /\ "login" \in authInflight
    /\ authInflight' = authInflight \ {"login"}
    /\ lastLogin' = [handled |-> TRUE, route |-> "unreached",
                     alert |-> "Login error", redirected |-> FALSE]
    /\ authIsLoading' = FALSE
    /\ UNCHANGED <<user, auth_token, auth_state, atProvider, lastAuthEvent,
                   lastCallback>>
    /\ UNCHANGED pageVars
    /\ UNCHANGED otherThanAuth

\* validateToken up to its await: called for the stored token when the
\* provider mounts and for the token of the callback page
validateToken ==
    /\ ~atProvider
    /\ "validate" \notin authInflight
    /\ authInflight' = authInflight \cup {"validate"}
    /\ lastAuthEvent' = "validate"
    /\ UNCHANGED <<user, authIsLoading, auth_token, auth_state, atProvider,
                   lastLogin, lastCallback>>
    /\ UNCHANGED pageVars
    /\ UNCHANGED otherThanAuth

\* validateToken after its await
ValidateReturns ==
    /\ "validate" \in authInflight
    /\ authInflight' = authInflight \ {"validate"}
    /\ \E valid \in BOOLEAN :
           IF valid
           THEN /\ user' = "user"
                /\ auth_token' = "token"
                /\ UNCHANGED auth_state
           ELSE /\ user' = "none"
                /\ auth_token' = ""
                /\ auth_state' = ""
    /\ authIsLoading' = FALSE
    /\ lastAuthEvent' = "validated"
    /\ UNCHANGED <<atProvider, lastLogin, lastCallback>>
    /\ UNCHANGED pageVars
    /\ UNCHANGED otherThanAuth

\* logout, from the header's button, which is shown when there is a user
logout ==
    /\ ~atProvider
    /\ user # "none"
    /\ user' = "none"
    /\ auth_token' = ""
    /\ auth_state' = ""
    /\ lastAuthEvent' = "logout"
    /\ UNCHANGED <<authIsLoading, atProvider, authInflight, lastLogin,
                   lastCallback>>
    /\ UNCHANGED pageVars
    /\ UNCHANGED otherThanAuth

\* ---- GET /api/auth/callback ----

ValidationResults == {"user", "no_user", "throws"}

\* Mutation: the cookie is set whatever the validation returned
CallbackErrorUnvalidated(token, agent, provider, apiKey, initialized, validation) ==
    IF ~token \/ ~agent \/ ~provider THEN "invalid_callback"
    ELSE IF ~apiKey THEN "configuration_error"
    ELSE IF ~initialized THEN "client_initialization_failed"
    ELSE IF validation = "throws" THEN "token_validation_error"
    ELSE ""

\* the error code of the redirect, "" on the path that sets the cookie
CallbackError(token, agent, provider, apiKey, initialized, validation) ==
    IF ~token \/ ~agent \/ ~provider THEN "invalid_callback"
    ELSE IF ~apiKey THEN "configuration_error"
    ELSE IF ~initialized THEN "client_initialization_failed"
    ELSE IF validation = "no_user" THEN "token_validation_failed"
    ELSE IF validation = "throws" THEN "token_validation_error"
    ELSE ""

\* the callback route: every path redirects to "/", the last one with the
\* userInfo cookie
CallbackRoute ==
    /\ ~("login" \in authInflight)
    /\ \E token \in BOOLEAN, agent \in BOOLEAN, provider \in BOOLEAN,
          apiKey \in BOOLEAN, initialized \in BOOLEAN,
          validation \in ValidationResults :
           LET error == CallbackError(token, agent, provider, apiKey,
                                      initialized, validation)
           IN  /\ lastCallback' =
                      [handled |-> TRUE, token |-> token, agent |-> agent,
                       provider |-> provider, apiKey |-> apiKey,
                       initialized |-> initialized, validation |-> validation,
                       error |-> error, setCookie |-> (error = ""),
                       redirect |-> "/", cookieBefore |-> cookie,
                       cookieAfter |-> IF error = "" THEN "valid" ELSE cookie]
               /\ cookie' = IF error = "" THEN "valid" ELSE cookie
    /\ atProvider' = FALSE
    /\ authInflight' = {}
    /\ authIsLoading' = TRUE
    /\ user' = "none"
    /\ lastAuthEvent' = "callback"
    /\ UNCHANGED <<auth_token, auth_state, lastLogin>>
    /\ UNCHANGED pageButCookie
    /\ UNCHANGED otherThanAuth

-----------------------------------------------------------------------------
(* The systems                                                             *)

\* the endpoint of Part I at rest, with one policy attached
IamAtRest ==
    /\ policy = PolicyDocument("Allow", TRUE, ListedActions, FALSE, {})
    /\ request = NoRequest
    /\ phase = "Idle"
    /\ decision = Pending
    /\ response = ""
    /\ opSteps = 0
    /\ evalCount = 0
    /\ operatorSignal = "None"

\* the chat page just loaded, nobody logged in
PageAtRest ==
    /\ cookie = "none"
    /\ PageLoaded

\* the endpoint of Part III before any call
ConcAtRest ==
    /\ attached = PolicyDocument("Allow", TRUE, Wildcard, FALSE, {})
    /\ everAttached = {attached}
    /\ calls = [c \in Callers |-> NoCall]

Init ==
    /\ InitIAM
    /\ PageAtRest
    /\ ConcAtRest
    /\ PaymentAtRest
    /\ SseAtRest
    /\ PromoAtRest
    /\ AuthAtRest

Next ==
    \/ Receive
    \/ StartEvaluation
    \/ Decide
    \/ Proceed
    \/ ExecuteStep
    \/ Complete
    \/ Reject

Spec == Init /\ [][Next]_vars

InitPage ==
    /\ IamAtRest
    /\ cookie \in {"none", "valid"}
    /\ PageLoaded
    /\ ConcAtRest
    /\ PaymentAtRest
    /\ SseAtRest
    /\ PromoAtRest
    /\ AuthAtRest

InitConcurrent ==
    /\ IamAtRest
    /\ PageAtRest
    /\ ConcIdle
    /\ PaymentAtRest
    /\ SseAtRest
    /\ PromoAtRest
    /\ AuthAtRest

NextConcurrent ==
    \/ \E c \in Callers : CallReceive(c)
    \/ \E c \in Callers : CallSnapshot(c)
    \/ \E c \in Callers : CallDecide(c)
    \/ ReloadPolicy

SpecConcurrent == InitConcurrent /\ [][NextConcurrent]_vars

\* the chat page of a logged-in user after a search that found a best match
PageWithProduct ==
    /\ cookie = "valid"
    /\ step = "menu"
    /\ pendingAction = "search"
    /\ isLoading = FALSE
    /\ bestMatchShown = TRUE
    /\ productLists = {}
    /\ loginPromptShown = FALSE
    /\ showPaymentModal = FALSE
    /\ selectedProduct = "none"
    /\ isComparing = FALSE
    /\ inflight = {}
    /\ lastEffect = [feature |-> "menu", loggedIn |-> TRUE]

\* localStorage outlives the page: an order id stored before a visit that
\* never came back from PayPal is still there
InitPayment ==
    /\ IamAtRest
    /\ PageWithProduct
    /\ ConcAtRest
    /\ modalLoading = FALSE
    /\ atPayPal = FALSE
    /\ approval = "none"
    /\ storedOrderId \in {"", "earlier"}
    /\ searchParams = NoParams
    /\ paymentDetails = NoDetails
    /\ showPaymentStatus = FALSE
    /\ statusLoading = TRUE
    /\ captureRequests = {}
    /\ payInflight = {}
    /\ SseAtRest
    /\ PromoAtRest
    /\ AuthAtRest

NextPayment ==
    \/ BuyNow
    \/ LooseLoginReturns
    \/ ClosePaymentModal
    \/ CookieExpires
    \/ ProceedToPayment
    \/ ProcessOrderReturns
    \/ PayPalReturns
    \/ ReloadPage
    \/ handlePaymentCallback
    \/ CaptureReturns
    \/ ClosePaymentStatus

SpecPayment == InitPayment /\ [][NextPayment]_vars

InitSse ==
    /\ IamAtRest
    /\ PageAtRest
    /\ ConcAtRest
    /\ PaymentAtRest
    /\ SseAtRest
    /\ PromoAtRest
    /\ AuthAtRest

ServerStep ==
    \E c \in StreamIds :
        \/ mpcStreamHandler(c)
        \/ ConnectResolves(c)
        \/ SocketClosed(c)

NextSse ==
    \/ connectToServer
    \/ onopen
    \/ onerror
    \/ disconnectFromServer
    \/ Tick
    \/ ServerStep
    \/ \E c \in StreamIds : ConnectRejects(c)
    \/ paymentHandler

SpecSse == InitSse /\ [][NextSse]_vars

\* the server and the browser run what they have to run; the user's clicks,
\* errors and payments need not happen
SpecSseFair == SpecSse /\ WF_vars(ServerStep) /\ WF_vars(onopen)

InitPromotions ==
    /\ IamAtRest
    /\ PageAtRest
    /\ ConcAtRest
    /\ PaymentAtRest
    /\ SseAtRest
    /\ PromoAtRest
    /\ AuthAtRest

NextPromotions ==
    \/ ModalOpens
    \/ handleEmailBlur
    \/ EmailEdited
    \/ fetchPromotions
    \/ handlePromotionSelect
    \/ PromotionApplied

SpecPromotions == InitPromotions /\ [][NextPromotions]_vars

InitAuth ==
    /\ IamAtRest
    /\ PageAtRest
    /\ ConcAtRest
    /\ PaymentAtRest
    /\ SseAtRest
    /\ PromoAtRest
    /\ AuthAtRest

NextAuth ==
    \/ login
    \/ LoginReturns
    \/ LoginFails
    \/ validateToken
    \/ ValidateReturns
    \/ logout
    \/ CallbackRoute
    \/ CookieExpires

SpecAuth == InitAuth /\ [][NextAuth]_vars

NextPage ==
    \/ MenuSelect
    \/ MenuLoginReturns
    \/ LooseLoginReturns
    \/ BuyNow
    \/ ComparePrices
    \/ CompareReturns
    \/ StepInput
    \/ SubmitSearch
    \/ SearchReturns
    \/ SubmitStep
    \/ ResultReturns
    \/ TestAgentReturns
    \/ ClosePaymentModal
    \/ CookieExpires
    \/ AuthCallback

SpecPage == InitPage /\ [][NextPage]_vars

-----------------------------------------------------------------------------
(* Claims about the IAM core                                               *)

Decided == decision # Pending

Terminal == {"Completed", "Rejected"}

CallerHasIdentity == request.callerIdentity.aztp_id # ""

\* the requested action is listed by the statement, exactly or by "*"
ActionListed ==
    /\ policy.hasAction
    /\ (request.requestedAction \in policy.Action \/ "*" \in policy.Action)

\* the trust domain the comparison of step 3 is made with
EffectiveDomain ==
    IF request.context.trust_domain.has
    THEN request.context.trust_domain.v
    ELSE request.callerIdentity.trustDomain

FailingConditions ==
    {c \in Conditions(policy) : ~ConditionHolds(c, request)}

\* C1: a request without callerIdentity is decided DeniedUnauthorized,
\* whatever the policy document contains; never Allowed, never
\* DeniedPolicyViolation.
C1_UnauthorizedPrecedence ==
    (Decided /\ ~CallerHasIdentity) =>
        /\ decision.outcome = "DeniedUnauthorized"
        /\ decision.reason = "no identity has been issued to this agent"

\* an Allow "*" policy without conditions, and still DeniedUnauthorized
C1_Witness ==
    /\ Decided
    /\ ~CallerHasIdentity
    /\ policy.Effect = "Allow" /\ policy.Action = Wildcard
    /\ ~policy.hasCondition
    /\ decision.outcome = "DeniedUnauthorized"

\* C2: the decision is Allowed if and only if the identity is present, the
\* effect is Allow, the action is listed (exactly or by the wildcard) and
\* every condition holds; everything else is a denial.
C2_AllowedIff ==
    Decided =>
        /\ decision.outcome \in
               {"Allowed", "DeniedUnauthorized", "DeniedPolicyViolation"}
        /\ decision.outcome = "Allowed" <=>
               /\ CallerHasIdentity
               /\ policy.Effect = "Allow"
               /\ ActionListed
               /\ FailingConditions = {}

\* allowed through the wildcard, with conditions to satisfy
C2_Witness ==
    /\ decision.outcome = "Allowed"
    /\ policy.Action = Wildcard
    /\ policy.Condition = MainConditions

C4_CheckBeforeUse ==
    /\ (opSteps > 0 \/ phase \in {"Executing", "Completed"}) =>
           (decision.outcome = "Allowed" /\ evalCount = 1)
    /\ decision.outcome \in {"DeniedUnauthorized", "DeniedPolicyViolation"} =>
           opSteps = 0
    /\ ~Decided => opSteps = 0

\* a denied call that has ended
C4_Witness ==
    /\ phase = "Rejected"
    /\ decision.outcome = "DeniedPolicyViolation"
    /\ opSteps = 0

StatementMatches ==
    /\ policy.Effect = "Allow"
    /\ ActionListed
    /\ FailingConditions = {}

\* C5 as stated: whenever the statement does not fully match, the outcome
\* is DeniedPolicyViolation.
C5_AsStated ==
    (Decided /\ ~StatementMatches) =>
        decision.outcome = "DeniedPolicyViolation"

\* C5 amended: whenever the statement does not fully match, the outcome is
\* never Allowed: DeniedPolicyViolation for a caller with an identity,
\* DeniedUnauthorized for a caller without one.
C5_FailClosed ==
    (Decided /\ ~StatementMatches) =>
        /\ decision.outcome # "Allowed"
        /\ CallerHasIdentity => decision.outcome = "DeniedPolicyViolation"
        /\ ~CallerHasIdentity => decision.outcome = "DeniedUnauthorized"

\* an action the Allow statement does not list, everything else satisfied
C5_Witness ==
    /\ Decided
    /\ CallerHasIdentity
    /\ policy.Effect = "Allow"
    /\ policy.Action = ListedActions
    /\ request.requestedAction = "delete_everything"
    /\ policy.Condition = MainConditions
    /\ FailingConditions = {}
    /\ decision.outcome = "DeniedPolicyViolation"

\* C6: for an Allow statement whose action matches, one failing condition
\* among the N is enough to deny, and the outcome is Allowed only when all
\* N hold.
C6_Conjunctive ==
    (Decided /\ CallerHasIdentity /\ policy.Effect = "Allow" /\ ActionListed) =>
        /\ Cardinality(FailingConditions) = 1 =>
               decision.outcome = "DeniedPolicyViolation"
        /\ decision.outcome = "Allowed" <=> FailingConditions = {}

\* four conditions, only the numeric one fails
C6_Witness ==
    /\ Decided
    /\ CallerHasIdentity
    /\ policy.Effect = "Allow" /\ ActionListed
    /\ Cardinality(Conditions(policy)) = 4
    /\ FailingConditions = {RefundAmountCondition}
    /\ decision.outcome = "DeniedPolicyViolation"

\* C7: a call returns exactly one of the three categories; "Unauthorized
\* access" exactly when the caller has no identity, "Policy violation" for
\* every denial of a caller with an identity, success otherwise.
C7_ThreeCategories ==
    /\ phase \notin Terminal => response = ""
    /\ phase \in Terminal =>
           /\ response \in {"Connection successful", "Unauthorized access",
                            "Policy violation"}
           /\ response = "Unauthorized access" <=> ~CallerHasIdentity
           /\ response = "Connection successful" <=> phase = "Completed"
           /\ (phase = "Rejected" /\ CallerHasIdentity) =>
                  response = "Policy violation"

\* a caller without identity has been turned away
C7_Witness ==
    /\ phase = "Rejected"
    /\ ~CallerHasIdentity
    /\ response = "Unauthorized access"

PhaseTransitions ==
    { <<"Idle", "Received">>,
      <<"Received", "Evaluating">>,
      <<"Evaluating", "Allowed">>,
      <<"Evaluating", "DeniedUnauthorized">>,
      <<"Evaluating", "DeniedPolicyViolation">>,
      <<"Allowed", "Executing">>,
      <<"Executing", "Completed">>,
      <<"DeniedUnauthorized", "Rejected">>,
      <<"DeniedPolicyViolation", "Rejected">> }

\* C9: a call moves only along Received -> Evaluating -> Allowed ->
\* Executing -> Completed or Received -> Evaluating -> Denied* ->
\* Rejected, never leaves Completed or Rejected, and enters Evaluating at
\* most once.
C9_StateMachine ==
    [][ /\ phase' # phase => <<phase, phase'>> \in PhaseTransitions
        /\ phase \in Terminal => phase' = phase
        /\ evalCount' <= 1
        /\ evalCount' # evalCount => phase' = "Evaluating" ]_vars

\* an allowed call that ran to completion
C9_Witness ==
    /\ phase = "Completed"
    /\ evalCount = 1
    /\ opSteps = MaxOpSteps

PolicyMalformed ==
    \/ policy.Effect \notin {"Allow", "Deny"}
    \/ ~policy.hasAction
    \/ \E c \in Conditions(policy) : c.op \notin KnownOperators

-----------------------------------------------------------------------------
(* Claims about the chat page, under SpecPage                              *)

\* C8: no shopping feature takes effect for a user who is not logged in:
\* a menu action, Buy Now (the payment modal opens) and Compare Prices (the
\* compare-prices request is sent) each take effect only for a user whom
\* /api/auth/user confirms as logged in.
C8_NoFeatureWithoutLogin ==
    lastEffect.feature # "none" => lastEffect.loggedIn

-----------------------------------------------------------------------------
(* Further claims about the IAM core, under Spec                           *)

OtherConditionsHold(c) == FailingConditions \subseteq {c}

\* C11: a NumberLessThan condition holds exactly when the context attribute
\* is present, numeric and strictly below the bound; otherwise it fails,
\* and the decision is DeniedPolicyViolation, an ordinary Decision: no
\* error signal is raised for it.
C11_NumberLessThan ==
    (/\ Decided
     /\ CallerHasIdentity
     /\ policy.Effect = "Allow" /\ ActionListed
     /\ RefundAmountCondition \in Conditions(policy)) =>
        LET value == request.context.refund_amount
            below == value.has /\ value.numeric /\ value.n < RefundLimit
        IN /\ RefundAmountCondition \notin FailingConditions <=> below
           /\ ~below =>
                  /\ decision.outcome = "DeniedPolicyViolation"
                  /\ WellFormed(policy) => operatorSignal = "None"
           /\ (below /\ OtherConditionsHold(RefundAmountCondition)) =>
                  decision.outcome = "Allowed"

\* the amount equals the bound and nothing else is in the way
C11_Witness ==
    /\ Decided
    /\ CallerHasIdentity
    /\ policy.Effect = "Allow" /\ ActionListed
    /\ WellFormed(policy)
    /\ request.context.refund_amount = Number(RefundLimit)
    /\ FailingConditions = {RefundAmountCondition}
    /\ decision = Decision("DeniedPolicyViolation", "condition failed")
    /\ operatorSignal = "None"

C15_DenyNeverAllows ==
    (Decided /\ policy.Effect = "Deny") =>
        /\ decision.outcome # "Allowed"
        /\ (policy.hasAction /\ policy.Action = Wildcard) =>
               /\ ActionMatches(policy, request.requestedAction)
               /\ CallerHasIdentity =>
                      decision = Decision("DeniedPolicyViolation",
                                          "action not permitted")

\* deny-all, a caller with an identity, an action no policy lists
C15_Witness ==
    /\ Decided
    /\ policy.Effect = "Deny"
    /\ policy.Action = Wildcard
    /\ ~policy.hasCondition
    /\ CallerHasIdentity
    /\ request.requestedAction = "delete_everything"
    /\ decision.outcome = "DeniedPolicyViolation"

\* C16: a policy document without a Condition block has its conditions
\* vacuously satisfied: with effect Allow and a matching action the
\* outcome is Allowed.
C16_NoConditionBlock ==
    (/\ Decided
     /\ CallerHasIdentity
     /\ ~policy.hasCondition
     /\ policy.Effect = "Allow"
     /\ ActionListed) =>
        decision = Decision("Allowed", "all checks passed")

\* an exact action match, the trust domain the documented one
C16_Witness ==
    /\ Decided
    /\ CallerHasIdentity
    /\ ~policy.hasCondition
    /\ policy.Effect = "Allow"
    /\ policy.Action = ListedActions
    /\ request.requestedAction = "process_refund"
    /\ EffectiveDomain = AsthaAi
    /\ decision.outcome = "Allowed"

-----------------------------------------------------------------------------
(* Claims about concurrent callers, under SpecConcurrent                   *)

-----------------------------------------------------------------------------
(* Claims about the payment flow, under SpecPayment                        *)

-----------------------------------------------------------------------------
(* Claims about the MCP payment server and its client, under SpecSse       *)

\* C18: the active-connection registry holds only live connections: no
\* entry belongs to a stream whose set-up failed or whose client's
\* disconnection the server has seen, in every ordering of connect
\* completion, client close and error.
C18_OnlyLiveConnections ==
    \A c \in Registered :
        /\ streams[c].state # "failed"
        /\ ~streams[c].closeEmitted

-----------------------------------------------------------------------------
(* Claims about promotions, under SpecPromotions                           *)

\* the price, to the cent, is the original reduced by the percentage
ReducedBy(price, original, pct) ==
    /\ ~price.nan /\ ~original.nan
    /\ 100 * price.cents - original.cents * (100 - pct) \in -50..50

\* C21: only one promotion is applied per order: the payment modal's
\* product carries no promotion and the product's own price, or one
\* promotion, the product's price as its original price, and a price that
\* is the original reduced by that promotion's percentage; a promotion
\* chosen after another replaces its discount and does not compound.
C21_OnePromotion ==
    IF modalProduct.applied_promotion = NoPromotion
    THEN modalProduct = product
    ELSE /\ modalProduct.applied_promotion \in PromotionCatalogue
         /\ modalProduct.original_price = product.price
         /\ ReducedBy(modalProduct.price, modalProduct.original_price,
                      modalProduct.applied_promotion.discount_percentage)

\* a second promotion is applied after a first
C21_Witness ==
    /\ Cardinality(everApplied) >= 2
    /\ modalProduct.applied_promotion = selectedPromotion
    /\ selectedPromotion.id = "student"

-----------------------------------------------------------------------------
(* Claims about login, callback and logout, under SpecAuth                 *)

\* C22: after logout all session data is cleared: the user is null (so
\* isAuthenticated is false), auth_token and auth_state are absent from
\* local storage, and the userInfo cookie no longer lets /api/auth/user
\* report a logged-in user.
C22_LogoutClearsSession ==
    lastAuthEvent = "logout" =>
        /\ user = "none"
        /\ auth_token = ""
        /\ auth_state = ""
        /\ ~AuthUserOk

\* what the callback route's request brought and found
CallbackComplete ==
    /\ lastCallback.token /\ lastCallback.agent /\ lastCallback.provider
    /\ lastCallback.apiKey
    /\ lastCallback.initialized
    /\ lastCallback.validation = "user"

\* C23: the auth callback route sets the userInfo cookie only when token,
\* agent and provider are all present, the API key is configured and the
\* token validation returned a user; every other path redirects to / with
\* an error code and sets no cookie.
C23_CookieOnlyWhenValidated ==
    lastCallback.handled =>
        /\ lastCallback.redirect = "/"
        /\ lastCallback.setCookie <=> CallbackComplete
        /\ lastCallback.setCookie <=> lastCallback.error = ""
        /\ lastCallback.cookieAfter =
               IF CallbackComplete THEN "valid" ELSE lastCallback.cookieBefore

\* a callback whose token validation returned no user is refused and leaves
\* the browser without the cookie
C23_Witness ==
    /\ lastCallback.handled
    /\ lastCallback.validation = "no_user"
    /\ lastCallback.token /\ lastCallback.agent /\ lastCallback.provider
    /\ lastCallback.apiKey /\ lastCallback.initialized
    /\ lastCallback.error = "token_validation_failed"
    /\ lastCallback.cookieAfter = "none"
    /\ cookie = "none"

\* C24: when the login route obtains a redirectUrl from the identity
\* provider, login stores the auth state and redirects the browser to it;
\* the 'Login failed' alert is shown only when the route reports an error.
C24_LoginRedirects ==
    lastLogin.handled =>
        /\ lastLogin.route = "ok" =>
               /\ lastLogin.redirected
               /\ lastLogin.alert = ""
        /\ lastLogin.alert = "Login failed" => lastLogin.route \notin {"ok", "unreached"}

-----------------------------------------------------------------------------
(* A further claim about the chat page, under SpecPage                     *)

\* the steps of the search, history and support flows
InFlow(s) == s \notin {"menu", "promotions_list"}

\* this step is the completion of a menu action: the login check of
\* handleMenuSelect, an agent test or the promotions fetch
MenuActionCompletes ==
    /\ cookie' = cookie
    /\ \E t \in inflight :
           /\ t.op \in {"menuLogin", "testAgent", "promotions"}
           /\ t \notin inflight'
           /\ inflight \ {t} \subseteq inflight'

\* C25: once a multi-step flow (search, history, support) has left the
\* 'menu' step, the step changes only through that flow's own inputs and
\* API completion: no completion of an earlier menu action (login check,
\* agent test, promotions fetch) changes the step in the middle of the flow.
C25_NoLateReset ==
    [][InFlow(step) /\ step' # step => ~MenuActionCompletes]_vars

=============================================================================
